---- MODULE Spec2Model ----
(***************************************************************************)
(* Model of ultimate_scraper.py: the three-tier fetch fallback, the        *)
(* per-URL pipeline, the batch loop, the image harvester and the           *)
(* extractive summarizer.                                                  *)
(*                                                                         *)
(* Strings that the code inspects character by character (the text handed  *)
(* to the summarizer, the lines of the URL box) are sequences of one       *)
(* character strings.  An HTML document is a set of fragments, each a      *)
(* phrase in a given letter case, so that lower() and the "in" tests of    *)
(* the pipeline are computed and not assumed.                              *)
(***************************************************************************)
EXTENDS Integers, Sequences, FiniteSets, TLC

\* ------------------------------------------------------------------ bounds
MaxTextLen == 5      \* longest text handed to extractive_summary
MaxSummary == 2      \* largest value of the "Summary sentences" slider tried
MaxLineLen == 1      \* longest line typed in the URL box
MaxLines   == 2      \* most lines pasted in the batch text area
MaxImgs    == 3      \* most <img> tags handed to the harvester run on its own
MaxImages  == 2      \* largest "Max images per page" of the harvester run on its own
MaxPageImgs == 1     \* most <img> tags on a page fetched by the pipeline

\* Python's None where a record is expected, and where a string is expected
None == [none |-> TRUE]

NoneStr == "None"

\* an exception in flight
Exception == [exception |-> TRUE]

\* ------------------------------------------------------- character helpers
TextChars == {"a", "b", ".", "!", " ", "\n"}

IsSpace(ch) == ch \in {" ", "\n"}

IsWordChar(ch) == ch \in {"a", "b"}

Min(x, y) == IF x <= y THEN x ELSE y

RECURSIVE LStrip(_)
LStrip(s) == IF s # <<>> /\ IsSpace(Head(s)) THEN LStrip(Tail(s)) ELSE s

RECURSIVE RStrip(_)
RStrip(s) ==
  IF s # <<>> /\ IsSpace(s[Len(s)]) THEN RStrip(SubSeq(s, 1, Len(s) - 1)) ELSE s

\* str.strip()
Strip(s) == RStrip(LStrip(s))

RECURSIVE SeqsUpTo(_, _)
SeqsUpTo(S, n) ==
  IF n = 0 THEN {<<>>}
  ELSE LET shorter == SeqsUpTo(S, n - 1)
       IN  shorter \cup {Append(s, x) : s \in {t \in shorter : Len(t) = n - 1}, x \in S}

\* ---------------------------------------------------------- split_sentences
\* [.!?] for the default branch; the character class of the "hi" branch
\* holds the danda bytes, "!" and "?", and no full stop
IsTerminator(ch, lang) ==
  IF lang = "hi" THEN ch \in {"!", "?"} ELSE ch \in {".", "!", "?"}

\* end of the maximal run of characters satisfying the test that starts at i
RECURSIVE RunEnd(_, _, _)
RunEnd(s, i, nlOnly) ==
  IF i <= Len(s) /\ (IF nlOnly THEN s[i] = "\n" ELSE IsSpace(s[i]))
  THEN RunEnd(s, i + 1, nlOnly) ELSE i

\* re.split: scan left to right; at i the first alternative (whitespace run
\* after a terminator) is tried before the second (run of newlines)
RECURSIVE ReSplit(_, _, _, _)
ReSplit(s, i, cur, lang) ==
  IF i > Len(s) THEN <<cur>>
  ELSE IF IsSpace(s[i]) /\ i > 1 /\ IsTerminator(s[i - 1], lang)
       THEN <<cur>> \o ReSplit(s, RunEnd(s, i, FALSE), <<>>, lang)
  ELSE IF s[i] = "\n"
       THEN <<cur>> \o ReSplit(s, RunEnd(s, i, TRUE), <<>>, lang)
  ELSE ReSplit(s, i + 1, Append(cur, s[i]), lang)

RECURSIVE StripNonEmpty(_)
StripNonEmpty(frags) ==
  IF frags = <<>> THEN <<>>
  ELSE LET h == Strip(Head(frags))
       IN  (IF h # <<>> THEN <<h>> ELSE <<>>) \o StripNonEmpty(Tail(frags))

split_sentences(text, lang) ==
  LET t == Strip(text)
  IN  IF t = <<>> THEN <<>> ELSE StripNonEmpty(ReSplit(t, 1, <<>>, lang))

\* ------------------------------------------------------- extractive_summary
\* re.findall(r'\w+', s): the maximal runs of word characters, in order
RECURSIVE FindWords(_, _)
FindWords(s, cur) ==
  IF s = <<>> THEN (IF cur # <<>> THEN <<cur>> ELSE <<>>)
  ELSE IF IsWordChar(Head(s)) THEN FindWords(Tail(s), Append(cur, Head(s)))
  ELSE (IF cur # <<>> THEN <<cur>> ELSE <<>>) \o FindWords(Tail(s), <<>>)

\* Counter(words)[w]
Freq(words, w) == Cardinality({j \in 1..Len(words) : words[j] = w})

RECURSIVE SumFreq(_, _)
SumFreq(ws, words) ==
  IF ws = <<>> THEN 0 ELSE Freq(words, Head(ws)) + SumFreq(Tail(ws), words)

\* scores[i] of line 102
SentenceScore(text, s) == SumFreq(FindWords(s, <<>>), FindWords(text, <<>>))

\* InsertByScore for a sort that is not stable: index i goes before the
\* elements whose score equals its own
RECURSIVE InsertByScoreLater(_, _, _)
InsertByScoreLater(lst, i, sc) ==
  IF lst = <<>> THEN <<i>>
  ELSE IF sc[Head(lst)] > sc[i] THEN <<Head(lst)>> \o InsertByScoreLater(Tail(lst), i, sc)
  ELSE <<i>> \o lst

\* position at which index i enters a list already sorted by descending
\* score: after every element whose score is >= its own (stable order)
RECURSIVE InsertByScore(_, _, _)
InsertByScore(lst, i, sc) ==
  IF lst = <<>> THEN <<i>>
  ELSE IF sc[Head(lst)] >= sc[i] THEN <<Head(lst)>> \o InsertByScore(Tail(lst), i, sc)
  ELSE <<i>> \o lst

\* sorted(scores, key=scores.get, reverse=True): the keys 1..n in insertion
\* order, stably sorted by descending score
RECURSIVE SortedByScore(_, _)
SortedByScore(n, sc) ==
  IF n = 0 THEN <<>> ELSE InsertByScore(SortedByScore(n - 1, sc), n, sc)

RECURSIVE InsertAsc(_, _)
InsertAsc(lst, i) ==
  IF lst = <<>> THEN <<i>>
  ELSE IF Head(lst) <= i THEN <<Head(lst)>> \o InsertAsc(Tail(lst), i)
  ELSE <<i>> \o lst

\* sorted(top_idx)
RECURSIVE SortedAsc(_)
SortedAsc(lst) ==
  IF lst = <<>> THEN <<>> ELSE InsertAsc(SortedAsc(Tail(lst)), Head(lst))

\* " ".join(parts)
RECURSIVE JoinSpace(_)
JoinSpace(parts) ==
  IF parts = <<>> THEN <<>>
  ELSE IF Len(parts) = 1 THEN Head(parts)
  ELSE Head(parts) \o <<" ">> \o JoinSpace(Tail(parts))

\* the indices (1-based) of the sentences extractive_summary keeps
SummaryIndices(text, max_sentences, lang) ==
  LET sents == split_sentences(text, lang)
      n     == Len(sents)
  IN  IF n <= max_sentences THEN [i \in 1..n |-> i]
      ELSE LET sc      == [i \in 1..n |-> SentenceScore(text, sents[i])]
               top_idx == SubSeq(SortedByScore(n, sc), 1, max_sentences)
           IN  SortedAsc(top_idx)

extractive_summary(text, max_sentences, lang) ==
  LET sents == split_sentences(text, lang)
      idx   == SummaryIndices(text, max_sentences, lang)
  IN  JoinSpace([j \in 1..Len(idx) |-> sents[idx[j]]])

\* ------------------------------------------------------------- HTML pages
\* a fragment of a document: a phrase written in a letter case; "cap" is the
\* capitalisation of the literals "Access Denied", "Reference", "Request blocked"
Frag(phrase, case) == [phrase |-> phrase, case |-> case]

EmptyDoc     == {}
NewsDoc      == {Frag("news", "cap")}
AkamaiDoc    == {Frag("access denied", "cap"), Frag("reference", "cap")}
AkamaiLower  == {Frag("access denied", "lower"), Frag("reference", "lower")}
DeniedUpper  == {Frag("access denied", "upper"), Frag("news", "cap")}
BlockedDoc   == {Frag("request blocked", "cap")}
BlockedLower == {Frag("request blocked", "lower"), Frag("news", "cap")}
RefNewsDoc   == {Frag("reference", "upper"), Frag("news", "cap")}

\* the documents a server may answer with
Pages == {EmptyDoc, NewsDoc, AkamaiDoc, AkamaiLower, DeniedUpper, BlockedDoc,
          BlockedLower, RefNewsDoc}

Tiers == {"requests", "cloudscraper", "selenium"}

\* r.text / driver.page_source as received by one tier
Html(tier, doc) == [by |-> tier, frags |-> doc]

\* str.lower()
Lower(frags) == {Frag(f.phrase, "lower") : f \in frags}

\* needle in haystack, for a needle written in the given case
Contains(frags, phrase, case) == Frag(phrase, case) \in frags

\* NeedSelenium with the "access denied" test negated
NeedSeleniumInverted(h) ==
  \/ h = None
  \/ ~Contains(Lower(h.frags), "access denied", "lower")
  \/ Contains(h.frags, "request blocked", "cap")

\* line 330: html is None or "access denied" in html.lower() or "Request blocked" in html
NeedSelenium(h) ==
  \/ h = None
  \/ Contains(Lower(h.frags), "access denied", "lower")
  \/ Contains(h.frags, "request blocked", "cap")

\* AccessDenied without the lower() of line 339
AccessDeniedCaseSensitive(h) ==
  /\ Contains(h.frags, "access denied", "lower")
  /\ Contains(h.frags, "reference", "lower")

\* lines 339-340: "access denied" in low and "reference" in low, low = html.lower()
AccessDenied(h) ==
  LET low == Lower(h.frags)
  IN  Contains(low, "access denied", "lower") /\ Contains(low, "reference", "lower")

\* extract_text_from_html: the <p> texts joined by a blank line; only the
\* news fragment carries paragraphs ("b. a" and "a")
extract_text_from_html(h) ==
  IF \E f \in h.frags : f.phrase = "news"
  THEN <<"b", ".", " ", "a", "\n", "\n", "a">>
  ELSE <<>>

\* extract_title_from_html: only the news fragment carries a <title>
extract_title_from_html(h) ==
  IF \E f \in h.frags : f.phrase = "news" THEN <<"n">> ELSE <<>>

\* line 347: extract_title_from_html(html) or url.split("/")[-1] or "article"
\* (the URLs of the model hold no "/", so the last segment is the URL)
TitleFor(h, u) ==
  IF extract_title_from_html(h) # <<>> THEN extract_title_from_html(h)
  ELSE IF u # <<>> THEN u ELSE <<"article">>

\* detect_language (76-82): the texts of the model's pages are Latin only, for
\* which neither langdetect nor the Devanagari test of line 80 answers "hi"
detect_language(text) == "en"

\* the settings of the two numeric widgets tried by the pipeline: the least
\* value and the default (lines 302, 305)
SummarySettings == {1, 50}

ImageSettings == {1, 50}

\* --------------------------------------------------------- image harvester
\* the <img> tags of the model: the three attributes read at line 231
Tag(src, dsrc, lazy) == [src |-> src, data_src |-> dsrc, data_lazy_src |-> lazy]

ImgTags == {Tag("", "", ""),
            Tag("/rel.png", "", ""),
            Tag("http://h/a.png", "", ""),
            Tag("", "http://h/b", ""),
            Tag("", "", " HTTP://h/c.png?w=1200 ")}

\* src.strip()
SrcStrip(src) == IF src = " HTTP://h/c.png?w=1200 " THEN "HTTP://h/c.png?w=1200" ELSE src

\* src.lower().startswith("http")
StartsWithHttp(src) == src \in {"http://h/a.png", "http://h/b", "HTTP://h/c.png?w=1200"}

\* Path(src).suffix
PathSuffix(src) ==
  CASE src = "http://h/a.png" -> ".png"
    [] src = "HTTP://h/c.png?w=1200" -> ".png?w=1200"
    [] src = "/rel.png" -> ".png"
    [] OTHER -> ""

SuffixLen(suffix) ==
  CASE suffix = ".png" -> 4
    [] suffix = ".png?w=1200" -> 11
    [] OTHER -> 0

\* line 240
ExtFor(src) ==
  IF PathSuffix(src) # "" /\ SuffixLen(PathSuffix(src)) <= 6 THEN PathSuffix(src) ELSE ".jpg"

\* line 231: src or data-src or data-lazy-src
TagSrc(tag) ==
  IF tag.src # "" THEN tag.src
  ELSE IF tag.data_src # "" THEN tag.data_src
  ELSE tag.data_lazy_src

\* what the network and the file system do for one <img>
ImgOutcomes == {"request_error", "stream_error", "valid", "invalid", "invalid_remove_fails"}

FileName(n, ext) == <<"img", n, ext>>

\* open(outpath, "wb") and the writes: the file of that name now has this content
WriteFile(disk, name, content) ==
  {f \in disk : f.name # name} \cup {[name |-> name, content |-> content]}

\* os.remove(outpath)
RemoveFile(disk, name) == {f \in disk : f.name # name}

\* one iteration of the loop of lines 228-257 on the state [c, saved_paths, disk]
HarvestStep(st, tag, out, max_images) ==
  LET raw == TagSrc(tag)
      src == SrcStrip(raw)
      name == FileName(st.c + 1, ExtFor(src))
  IN  IF st.c >= max_images \/ raw = "" \/ ~StartsWithHttp(src) \/ out = "request_error"
      THEN st
      ELSE IF out = "stream_error"
      THEN [st EXCEPT !.disk = WriteFile(st.disk, name, "partial")]
      ELSE IF out = "valid"
      THEN [c |-> st.c + 1, saved_paths |-> Append(st.saved_paths, name),
            disk |-> WriteFile(st.disk, name, "image")]
      ELSE IF out = "invalid"
      THEN [st EXCEPT !.disk = RemoveFile(WriteFile(st.disk, name, "garbage"), name)]
      ELSE [st EXCEPT !.disk = WriteFile(st.disk, name, "garbage")]

HarvestStart == [c |-> 0, saved_paths |-> <<>>, disk |-> {}]

\* download_images_from_html on the tags and the outcomes the environment
\* gives them, in document order
RECURSIVE HarvestRun(_, _, _)
HarvestRun(st, run, max_images) ==
  IF run = <<>> THEN st
  ELSE HarvestRun(HarvestStep(st, Head(run).tag, Head(run).out, max_images),
                  Tail(run), max_images)

ImgRuns == SeqsUpTo([tag : ImgTags, out : ImgOutcomes], MaxPageImgs)

\* ------------------------------------------------------------------- state
VARIABLES
  mode,               \* the "Mode" radio: "Single" or "Batch"
  url_input,          \* the URL box, as the sequence of its lines
  ui,                 \* where the script is in its UI actions
  lines, k,           \* batch: the non-blank stripped lines, the loop position
  succ, fail,         \* batch counters
  results,            \* batch: the records appended at line 419
  calls, statuses,    \* batch: the URLs handed to the pipeline, the statuses returned
  cloudscraper,       \* whether "import cloudscraper" succeeded (lines 19-22)
  summary_sentences,  \* the "Summary sentences" slider
  max_images,         \* the "Max images per page" input
  pc,                 \* position inside process_url_pipeline
  url, html,          \* locals of process_url_pipeline
  lang, summary, title, folder,
  harvest,            \* locals c, saved_paths of download_images_from_html, and the folder's image files
  written,            \* the documents written so far
  status, res,        \* the pair process_url_pipeline returns
  attempts,           \* the fetch tiers called in this run, with the outcome of each
  errors,             \* the later stages that raised in this run
  driver, scrolls,    \* fetch_selenium: the browser instance, scrolls left
  pending,            \* fetch_selenium: what leaves the try block (page source or exception)
  imgs,               \* harvester run on its own: the <img> tags still to visit
  sumcall             \* summarizer run on its own: arguments and result

uivars   == <<mode, url_input, ui, lines, k, succ, fail, results, calls, statuses>>
cfgvars  == <<cloudscraper, summary_sentences, max_images>>
pipevars == <<pc, url, html, lang, summary, title, folder, harvest, written,
              status, res, attempts, errors, driver, scrolls, pending>>
vars     == <<uivars, cfgvars, pipevars, imgs, sumcall>>

LineChars == {" ", "a"}

\* the lines that can be typed
Lines == SeqsUpTo(LineChars, MaxLineLen)

AllDocs == {"docx", "pdf", "txt"}

\* no call of process_url_pipeline is in progress
PipeIdle ==
  /\ pc = "idle" /\ url = <<>> /\ html = None /\ lang = NoneStr /\ summary = <<>>
  /\ title = <<>> /\ folder = NoneStr /\ harvest = HarvestStart /\ written = {}
  /\ status = NoneStr /\ res = None /\ attempts = <<>> /\ errors = {}
  /\ driver = "none" /\ scrolls = 0 /\ pending = None

\* the call has returned: its locals and its return value are consumed
PipeReset ==
  /\ pc' = "idle" /\ url' = <<>> /\ html' = None /\ lang' = NoneStr /\ summary' = <<>>
  /\ title' = <<>> /\ folder' = NoneStr /\ harvest' = HarvestStart /\ written' = {}
  /\ status' = NoneStr /\ res' = None /\ attempts' = <<>> /\ errors' = {}
  /\ driver' = "none" /\ scrolls' = 0 /\ pending' = None

ConfigInit ==
  /\ cloudscraper \in BOOLEAN
  /\ summary_sentences \in SummarySettings
  /\ max_images \in ImageSettings

BatchIdle ==
  /\ lines = <<>> /\ k = 0 /\ succ = 0 /\ fail = 0 /\ results = <<>>
  /\ calls = <<>> /\ statuses = <<>>

\* the form as submitted in Single mode: one line of text
Init ==
  /\ mode = "Single"
  /\ url_input \in {<<l>> : l \in Lines}
  /\ ui = "form"
  /\ BatchIdle /\ ConfigInit /\ PipeIdle
  /\ imgs = <<>> /\ sumcall = None

\* the form as submitted in Batch mode: the lines of the text area
InitBatch ==
  /\ mode = "Batch"
  /\ url_input \in SeqsUpTo(Lines, MaxLines)
  /\ ui = "form"
  /\ BatchIdle /\ ConfigInit /\ PipeIdle
  /\ imgs = <<>> /\ sumcall = None

\* ------------------------------------------------------ process_url_pipeline
Return(r, st) == /\ pc' = "returned" /\ res' = r /\ status' = st

Attempt(tier, out) == attempts' = Append(attempts, [tier |-> tier, out |-> out])

\* lines 314-317
P_Start ==
  /\ pc = "start"
  /\ url' = Strip(url)
  /\ IF Strip(url) = <<>> THEN Return(None, "empty") ELSE pc' = "requests" /\ UNCHANGED <<res, status>>
  /\ UNCHANGED <<html, lang, summary, title, folder, harvest, written, attempts, errors,
                 driver, scrolls, pending>>

\* where line 323 continues once html is known
AfterRequests(h) == IF h = None /\ cloudscraper THEN "cloudscraper" ELSE "fallback"

\* lines 319-322 with fetch_requests (124-132): one GET; raise_for_status or a
\* transport error leaves html = None
P_Requests ==
  /\ pc = "requests"
  /\ \/ \E doc \in Pages :
          /\ html' = Html("requests", doc)
          /\ Attempt("requests", "html")
          /\ pc' = AfterRequests(html')
     \/ \E err \in {"http_403", "network_error"} :
          /\ html' = None
          /\ Attempt("requests", err)
          /\ pc' = AfterRequests(None)
  /\ UNCHANGED <<url, lang, summary, title, folder, harvest, written, status, res, errors,
                 driver, scrolls, pending>>

\* lines 324-328 with fetch_cloudscraper (134-145)
P_Cloudscraper ==
  /\ pc = "cloudscraper"
  /\ \/ \E doc \in Pages : html' = Html("cloudscraper", doc) /\ Attempt("cloudscraper", "html")
     \/ \E err \in {"http_403", "network_error"} : html' = None /\ Attempt("cloudscraper", err)
  /\ pc' = "fallback"
  /\ UNCHANGED <<url, lang, summary, title, folder, harvest, written, status, res, errors,
                 driver, scrolls, pending>>

\* line 330: the test that guards the selenium fallback
P_Fallback ==
  /\ pc = "fallback"
  /\ pc' = IF NeedSelenium(html) THEN "selenium" ELSE "check"
  /\ UNCHANGED <<url, html, lang, summary, title, folder, harvest, written, status, res,
                 attempts, errors, driver, scrolls, pending>>

\* ----------------------------------------------------------- fetch_selenium
selvars_rest == <<url, lang, summary, title, folder, harvest, written>>

\* lines 169-177: start the driver; a failure is re-raised as RuntimeError and
\* reaches the except of line 333
SelLaunch ==
  /\ pc = "selenium"
  /\ \/ /\ driver' = "open" /\ pc' = "sel_get" /\ Attempt("selenium", "launched")
        /\ UNCHANGED <<status, res, errors>>
     \/ /\ Attempt("selenium", "launch_error")
        /\ Return(None, "fetch_error")
        /\ UNCHANGED <<driver, errors>>
  /\ UNCHANGED <<html, scrolls, pending>> /\ UNCHANGED selvars_rest

\* an exception inside the try block of 179-192 goes to the finally clause
SelRaise == /\ pending' = Exception /\ pc' = "sel_finally"

\* line 180
SelGet ==
  /\ pc = "sel_get"
  /\ \/ pc' = "sel_wait" /\ UNCHANGED pending
     \/ SelRaise
  /\ UNCHANGED <<html, status, res, attempts, errors, driver, scrolls>> /\ UNCHANGED selvars_rest

\* lines 181-187: the wait for <body> (a timeout is swallowed), the sleep, and
\* the choice of the number of scrolls
SelWait ==
  /\ pc = "sel_wait"
  /\ \E n \in 1..3 : scrolls' = n
  /\ pc' = "sel_scroll"
  /\ UNCHANGED <<html, status, res, attempts, errors, driver, pending>> /\ UNCHANGED selvars_rest

\* lines 187-189: one scrollBy
SelScroll ==
  /\ pc = "sel_scroll" /\ scrolls > 0
  /\ \/ scrolls' = scrolls - 1 /\ UNCHANGED <<pc, pending>>
     \/ SelRaise /\ UNCHANGED scrolls
  /\ UNCHANGED <<html, status, res, attempts, errors, driver>> /\ UNCHANGED selvars_rest

\* lines 190-191: scrollTo(0, 0)
SelScrollTop ==
  /\ pc = "sel_scroll" /\ scrolls = 0
  /\ \/ pc' = "sel_source" /\ UNCHANGED pending
     \/ SelRaise
  /\ UNCHANGED <<html, status, res, attempts, errors, driver, scrolls>> /\ UNCHANGED selvars_rest

\* line 192: return driver.page_source
SelPageSource ==
  /\ pc = "sel_source"
  /\ \/ \E doc \in Pages : pending' = Html("selenium", doc) /\ pc' = "sel_finally"
     \/ SelRaise
  /\ UNCHANGED <<html, status, res, attempts, errors, driver, scrolls>> /\ UNCHANGED selvars_rest

\* SelFinally with quit() after the return only, not in a finally clause
SelFinallyNoQuitOnError ==
  /\ pc = "sel_finally"
  /\ IF pending = Exception
     THEN Return(None, "fetch_error") /\ UNCHANGED <<html, driver>>
     ELSE html' = pending /\ pc' = "check" /\ driver' = "quit" /\ UNCHANGED <<status, res>>
  /\ UNCHANGED <<attempts, errors, scrolls, pending>> /\ UNCHANGED selvars_rest

\* SelFinally with the page source assigned only when html was None
SelFinallyKeepEarlierHtml ==
  /\ pc = "sel_finally"
  /\ driver' = "quit"
  /\ IF pending = Exception
     THEN Return(None, "fetch_error") /\ UNCHANGED html
     ELSE /\ html' = (IF html = None THEN pending ELSE html) /\ pc' = "check"
          /\ UNCHANGED <<status, res>>
  /\ UNCHANGED <<attempts, errors, scrolls, pending>> /\ UNCHANGED selvars_rest

\* SelFinally where an exception falls back on HTML an earlier tier returned
SelFinallyFallBackOnEarlierHtml ==
  /\ pc = "sel_finally"
  /\ driver' = "quit"
  /\ IF pending = Exception
     THEN /\ IF html = None THEN Return(None, "fetch_error")
             ELSE pc' = "check" /\ UNCHANGED <<res, status>>
          /\ UNCHANGED html
     ELSE html' = pending /\ pc' = "check" /\ UNCHANGED <<status, res>>
  /\ UNCHANGED <<attempts, errors, scrolls, pending>> /\ UNCHANGED selvars_rest

\* lines 193-197 and 331-334: driver.quit() (its own failure is swallowed),
\* then the page source is assigned to html or the exception becomes fetch_error
SelFinally ==
  /\ pc = "sel_finally"
  /\ driver' = "quit"
  /\ IF pending = Exception
     THEN Return(None, "fetch_error") /\ UNCHANGED html
     ELSE html' = pending /\ pc' = "check" /\ UNCHANGED <<status, res>>
  /\ UNCHANGED <<attempts, errors, scrolls, pending>> /\ UNCHANGED selvars_rest

\* ------------------------------------------- process_url_pipeline, continued
fetchvars == <<attempts, driver, scrolls, pending>>

\* lines 336-341
P_Check ==
  /\ pc = "check"
  /\ IF html.frags = {} THEN Return(None, "no_html")
     ELSE IF AccessDenied(html) THEN Return(None, "access_denied")
     ELSE pc' = "process" /\ UNCHANGED <<res, status>>
  /\ UNCHANGED <<url, html, lang, summary, title, folder, harvest, written, errors>>
  /\ UNCHANGED fetchvars

\* lines 343-353: text, language, summary, title, and the output folder; the
\* second os.makedirs stands outside any try
P_Process ==
  /\ pc = "process"
  /\ lang' = detect_language(extract_text_from_html(html))
  /\ summary' = extractive_summary(extract_text_from_html(html), summary_sentences, lang')
  /\ title' = TitleFor(html, url)
  /\ \/ /\ folder' = "short_safe_folder" /\ pc' = "images" /\ UNCHANGED errors
     \/ /\ folder' = "article_hash" /\ pc' = "images" /\ errors' = errors \cup {"makedirs"}
     \/ /\ folder' = "article_hash" /\ pc' = "raised"
        /\ errors' = errors \cup {"makedirs", "makedirs_fallback"}
  /\ UNCHANGED <<url, html, harvest, written, status, res>>
  /\ UNCHANGED fetchvars

\* line 355: download_images_from_html over the page's <img> tags
P_Images ==
  /\ pc = "images"
  /\ \E run \in ImgRuns : harvest' = HarvestRun(HarvestStart, run, max_images)
  /\ pc' = "save_docx"
  /\ UNCHANGED <<url, html, lang, summary, title, folder, written, status, res, errors>>
  /\ UNCHANGED fetchvars

\* one of the three writes of lines 361-366: the file is written, or the
\* write raises and the run returns save_error
SaveStep(here, doc, next) ==
  /\ pc = here
  /\ \/ /\ written' = written \cup {doc} /\ pc' = next
        /\ UNCHANGED <<status, res, errors>>
     \/ /\ errors' = errors \cup {doc} /\ Return(None, "save_error")
        /\ UNCHANGED written
  /\ UNCHANGED <<url, html, lang, summary, title, folder, harvest>>
  /\ UNCHANGED fetchvars

P_SaveDocx == SaveStep("save_docx", "docx", "save_pdf")

P_SavePdf == SaveStep("save_pdf", "pdf", "save_txt")

\* P_SaveTxt with the exception of the write swallowed
P_SaveTxtSwallow ==
  /\ pc = "save_txt"
  /\ \/ written' = written \cup {"txt"} /\ UNCHANGED errors
     \/ errors' = errors \cup {"txt"} /\ UNCHANGED written
  /\ pc' = "return"
  /\ UNCHANGED <<url, html, lang, summary, title, folder, harvest, status, res>>
  /\ UNCHANGED fetchvars

P_SaveTxt == SaveStep("save_txt", "txt", "return")

\* lines 368-377
P_Return ==
  /\ pc = "return"
  /\ Return([url |-> url, title |-> title, folder |-> folder,
             images |-> harvest.saved_paths,
             docx |-> <<folder, "docx">>, pdf |-> <<folder, "pdf">>,
             txt |-> <<folder, "txt">>, summary |-> summary], "ok")
  /\ UNCHANGED <<url, html, lang, summary, title, folder, harvest, written, errors>>
  /\ UNCHANGED fetchvars

\* what a step of process_url_pipeline leaves alone
Outside == UNCHANGED <<uivars, cfgvars, imgs, sumcall>>

pipelocals == <<html, lang, summary, title, folder, harvest, written, status, res,
                attempts, errors, driver, scrolls, pending>>

\* ------------------------------------------------------------- Single mode
\* lines 382-389: the button; a blank box only warns
ScrapeAndSave ==
  /\ ui = "form" /\ mode = "Single"
  /\ IF Strip(url_input[1]) = <<>>
     THEN ui' = "warning" /\ UNCHANGED <<pc, url>>
     ELSE ui' = "working" /\ pc' = "start" /\ url' = url_input[1]
  /\ UNCHANGED <<mode, url_input, lines, k, succ, fail, results, calls, statuses>>
  /\ UNCHANGED <<cfgvars, pipelocals, imgs, sumcall>>

\* lines 390-405
SingleShow ==
  /\ ui = "working" /\ pc = "returned"
  /\ ui' = IF res # None /\ status = "ok" THEN "success" ELSE "error"
  /\ UNCHANGED <<mode, url_input, lines, k, succ, fail, results, calls, statuses>>
  /\ UNCHANGED <<cfgvars, pipevars, imgs, sumcall>>

\* an exception that leaves process_url_pipeline ends the script run
ScriptCrash ==
  /\ ui \in {"working", "loop"} /\ pc = "raised"
  /\ ui' = "crashed"
  /\ UNCHANGED <<mode, url_input, lines, k, succ, fail, results, calls, statuses>>
  /\ UNCHANGED <<cfgvars, pipevars, imgs, sumcall>>

Next ==
  \/ ScrapeAndSave
  \/ P_Start /\ Outside
  \/ P_Requests /\ Outside
  \/ P_Cloudscraper /\ Outside
  \/ P_Fallback /\ Outside
  \/ SelLaunch /\ Outside
  \/ SelGet /\ Outside
  \/ SelWait /\ Outside
  \/ SelScroll /\ Outside
  \/ SelScrollTop /\ Outside
  \/ SelPageSource /\ Outside
  \/ SelFinally /\ Outside
  \/ P_Check /\ Outside
  \/ P_Process /\ Outside
  \/ P_Images /\ Outside
  \/ P_SaveDocx /\ Outside
  \/ P_SavePdf /\ Outside
  \/ P_SaveTxt /\ Outside
  \/ P_Return /\ Outside
  \/ SingleShow
  \/ ScriptCrash

Spec == Init /\ [][Next]_vars

\* -------------------------------------------------------------- Batch mode
RECURSIVE NonBlankStripped(_)
NonBlankStripped(ls) ==
  IF ls = <<>> THEN <<>>
  ELSE (IF Strip(Head(ls)) # <<>> THEN <<Strip(Head(ls))>> ELSE <<>>)
       \o NonBlankStripped(Tail(ls))

\* lines 407-414
RunBatch ==
  /\ ui = "form" /\ mode = "Batch"
  /\ lines' = NonBlankStripped(url_input)
  /\ IF lines' = <<>> THEN ui' = "warning" /\ UNCHANGED k ELSE ui' = "loop" /\ k' = 1
  /\ UNCHANGED <<mode, url_input, succ, fail, results, calls, statuses>>
  /\ UNCHANGED <<cfgvars, pipevars, imgs, sumcall>>

\* lines 415-416: the call for the next line
BatchCall ==
  /\ ui = "loop" /\ pc = "idle" /\ k <= Len(lines)
  /\ pc' = "start" /\ url' = lines[k]
  /\ calls' = Append(calls, lines[k])
  /\ UNCHANGED <<mode, url_input, ui, lines, k, succ, fail, results, statuses>>
  /\ UNCHANGED <<cfgvars, pipelocals, imgs, sumcall>>

\* lines 417-421: count the result; the locals of the call are gone
BatchCount ==
  /\ ui = "loop" /\ pc = "returned"
  /\ IF res # None /\ status = "ok"
     THEN succ' = succ + 1 /\ results' = Append(results, res) /\ UNCHANGED fail
     ELSE fail' = fail + 1 /\ UNCHANGED <<succ, results>>
  /\ statuses' = Append(statuses, status)
  /\ k' = k + 1
  /\ PipeReset
  /\ UNCHANGED <<mode, url_input, ui, lines, calls>>
  /\ UNCHANGED <<cfgvars, imgs, sumcall>>

\* lines 422-425: the loop is over, the counts are reported
BatchComplete ==
  /\ ui = "loop" /\ pc = "idle" /\ k > Len(lines)
  /\ ui' = "complete"
  /\ UNCHANGED <<mode, url_input, lines, k, succ, fail, results, calls, statuses>>
  /\ UNCHANGED <<cfgvars, pipevars, imgs, sumcall>>

NextBatch ==
  \/ RunBatch
  \/ BatchCall
  \/ P_Start /\ Outside
  \/ P_Requests /\ Outside
  \/ P_Cloudscraper /\ Outside
  \/ P_Fallback /\ Outside
  \/ SelLaunch /\ Outside
  \/ SelGet /\ Outside
  \/ SelWait /\ Outside
  \/ SelScroll /\ Outside
  \/ SelScrollTop /\ Outside
  \/ SelPageSource /\ Outside
  \/ SelFinally /\ Outside
  \/ P_Check /\ Outside
  \/ P_Process /\ Outside
  \/ P_Images /\ Outside
  \/ P_SaveDocx /\ Outside
  \/ P_SavePdf /\ Outside
  \/ P_SaveTxt /\ Outside
  \/ P_Return /\ Outside
  \/ BatchCount
  \/ BatchComplete
  \/ ScriptCrash

SpecBatch == InitBatch /\ [][NextBatch]_vars

\* ------------------------------------- download_images_from_html on its own
\* the harvester called on a page with these <img> tags
InitHarvest ==
  /\ mode = "Single" /\ url_input = <<>> /\ ui = "form"
  /\ BatchIdle /\ PipeIdle
  /\ cloudscraper = FALSE /\ summary_sentences = 50
  /\ max_images \in 1..MaxImages
  /\ imgs \in SeqsUpTo(ImgTags, MaxImgs)
  /\ sumcall = None

harvestrest == <<url, html, lang, summary, title, folder, written, status, res,
                 attempts, errors, driver, scrolls, pending>>

\* lines 222-227
H_Start ==
  /\ pc = "idle"
  /\ pc' = "h_loop" /\ harvest' = HarvestStart
  /\ UNCHANGED <<uivars, cfgvars, harvestrest, imgs, sumcall>>

\* lines 228-257: the next <img>, with what the network and the disk do for it
H_Img ==
  /\ pc = "h_loop" /\ imgs # <<>> /\ harvest.c < max_images
  /\ \E out \in ImgOutcomes : harvest' = HarvestStep(harvest, Head(imgs), out, max_images)
  /\ imgs' = Tail(imgs)
  /\ UNCHANGED <<uivars, cfgvars, pc, harvestrest, sumcall>>

\* lines 229-230 and 258: the break, or the end of the tags; return saved_paths
H_Return ==
  /\ pc = "h_loop" /\ (imgs = <<>> \/ harvest.c >= max_images)
  /\ pc' = "h_returned"
  /\ UNCHANGED <<uivars, cfgvars, harvestrest, harvest, imgs, sumcall>>

NextHarvest == H_Start \/ H_Img \/ H_Return

SpecHarvest == InitHarvest /\ [][NextHarvest]_vars

\* ------------------------------------------------ extractive_summary on its own
SumArgs(text, max_sentences, l) ==
  [text |-> text, max_sentences |-> max_sentences, lang |-> l,
   called |-> FALSE, top_sorted |-> <<>>, result |-> <<>>]

InitSummary ==
  /\ mode = "Single" /\ url_input = <<>> /\ ui = "form"
  /\ BatchIdle /\ PipeIdle
  /\ cloudscraper = FALSE /\ summary_sentences = 50 /\ max_images = 50
  /\ imgs = <<>>
  /\ sumcall \in {SumArgs(t, m, l) : t \in SeqsUpTo(TextChars, MaxTextLen),
                                     m \in 1..MaxSummary, l \in {"en", "hi"}}

\* lines 94-105
Summarize ==
  /\ ~sumcall.called
  /\ sumcall' = [sumcall EXCEPT
       !.called = TRUE,
       !.top_sorted = SummaryIndices(sumcall.text, sumcall.max_sentences, sumcall.lang),
       !.result = extractive_summary(sumcall.text, sumcall.max_sentences, sumcall.lang)]
  /\ UNCHANGED <<uivars, cfgvars, pipevars, imgs>>

NextSummary == Summarize

SpecSummary == InitSummary /\ [][NextSummary]_vars

\* ------------------------------------------------------------- properties
\* the tiers called so far, in the order of the calls
TiersTried == [i \in 1..Len(attempts) |-> attempts[i].tier]

\* an access-denial marker as the claims word it: "access denied" in any
\* letter case, or "Request blocked" as written
HasDenialMarker(h) ==
  \E f \in h.frags : f.phrase = "access denied" \/ f = Frag("request blocked", "cap")

\* "Access Denied" and "reference", each in any letter case
DeniedAndReference(h) ==
  /\ \E f \in h.frags : f.phrase = "access denied"
  /\ \E f \in h.frags : f.phrase = "reference"

\* fetch_selenium raised: the driver did not start, or the try block was left
\* by an exception
BrowserRaised ==
  \/ pending = Exception
  \/ \E i \in 1..Len(attempts) : attempts[i] = [tier |-> "selenium", out |-> "launch_error"]

BrowserLaunched ==
  \E i \in 1..Len(attempts) : attempts[i] = [tier |-> "selenium", out |-> "launched"]

\* C1: within one run the tiers are called in the order requests,
\* cloudscraper, selenium, none twice; cloudscraper only when requests left
\* no HTML and the module is available; selenium only when no HTML has been
\* obtained or the HTML obtained carries an access-denial marker.
C1_OneTierCall ==
  attempts' # attempts =>
    \E a \in [tier : Tiers, out : {"html", "http_403", "network_error", "launched", "launch_error"}] :
      /\ attempts' = Append(attempts, a)
      /\ a.tier = "requests" => attempts = <<>> /\ html = None
      /\ a.tier = "cloudscraper" =>
           /\ TiersTried = <<"requests">> /\ attempts[1].out # "html"
           /\ html = None /\ cloudscraper
      /\ a.tier = "selenium" =>
           /\ TiersTried \in {<<"requests">>, <<"requests", "cloudscraper">>}
           /\ \/ html = None /\ \A i \in 1..Len(attempts) : attempts[i].out # "html"
              \/ html # None /\ HasDenialMarker(html)

C2_BrowserHtmlIsUsed ==
  ( /\ pc = "returned"
    /\ attempts # <<>> /\ attempts[1] = [tier |-> "requests", out |-> "http_403"]
    /\ pending \notin {None, Exception}
    /\ pending.frags # {} /\ ~DeniedAndReference(pending)
    /\ errors \cap AllDocs = {} )
  => /\ status = "ok"
     /\ html = pending /\ html.by = "selenium"
     /\ res # None
     /\ res.summary = extractive_summary(extract_text_from_html(pending), summary_sentences,
                                         detect_language(extract_text_from_html(pending)))
     /\ res.title = TitleFor(pending, url)

C2_Witness ==
  /\ pc = "returned" /\ status = "ok"
  /\ attempts[1] = [tier |-> "requests", out |-> "http_403"]
  /\ html.by = "selenium" /\ res.summary # <<>>

C4_RecordOnlyWhenAllWritten ==
  /\ pc = "raised" => res = None
  /\ pc = "returned" =>
       /\ res # None <=> status = "ok"
       /\ res # None =>
            /\ html # None /\ html.frags # {} /\ ~DeniedAndReference(html)
            /\ written = AllDocs /\ errors \cap AllDocs = {}
       /\ errors \cap AllDocs # {} => res = None /\ status = "save_error"

\* the third write raised after two documents were on disk
C4_Witness ==
  /\ pc = "returned" /\ status = "save_error" /\ res = None
  /\ written = {"docx", "pdf"} /\ "txt" \in errors

\* C5: no failure of any stage leaves process_url_pipeline as an exception.
C5_NeverRaises == pc # "raised"

\* C7: a browser instance is open only inside the try block of
\* fetch_selenium, and a run that launched one ends with quit() called.
C7_BrowserReleased ==
  /\ driver = "open" => pc \in {"sel_get", "sel_wait", "sel_scroll", "sel_source", "sel_finally"}
  /\ pc \in {"returned", "raised"} /\ BrowserLaunched => driver = "quit"

\* the try block was left by an exception and the instance was still quit
C7_Witness ==
  /\ pc = "returned" /\ pending = Exception /\ BrowserLaunched /\ driver = "quit"

\* C10: the run returns fetch_error exactly when fetch_selenium was called
\* and raised; HTML that an earlier tier had returned is then not examined,
\* extracted or persisted.
C10_FetchErrorIffBrowserRaised ==
  pc = "returned" =>
    /\ status = "fetch_error" <=> ("selenium" \in {attempts[i].tier : i \in 1..Len(attempts)} /\ BrowserRaised)
    /\ BrowserRaised => res = None /\ written = {} /\ summary = <<>> /\ folder = NoneStr

\* an earlier tier's page, denied and with a reference, ends as fetch_error
C10_Witness ==
  /\ pc = "returned" /\ status = "fetch_error" /\ pending = Exception
  /\ html # None /\ html.by = "cloudscraper" /\ DeniedAndReference(html)

\* C6: when the batch run is over, every non-blank line has been handed to
\* the pipeline once, in input order, and the counts add up to the number of
\* lines, the successes being the runs that returned ok.
C6_BatchProcessesEveryLine ==
  ui \in {"complete", "crashed"} =>
    /\ calls = lines
    /\ Len(statuses) = Len(lines)
    /\ succ + fail = Len(lines)
    /\ succ = Cardinality({i \in 1..Len(statuses) : statuses[i] = "ok"})

\* C9: when the harvester returns, every image file it left in the folder
\* is a validated image listed in the returned paths, and the list is no
\* longer than the maximum.
C9_OnlyValidatedFilesRemain ==
  pc = "h_returned" =>
    /\ \A f \in harvest.disk :
         /\ f.content = "image"
         /\ \E i \in 1..Len(harvest.saved_paths) : harvest.saved_paths[i] = f.name
    /\ Len(harvest.saved_paths) <= max_images

\* C8: extractive_summary keeps min(n, max) sentences at distinct positions
\* in their original order, joined by spaces; when n > max they are the
\* highest scoring, a tie going to the lower index.
C8_SummarySelection ==
  sumcall.called =>
    LET sents == split_sentences(sumcall.text, sumcall.lang)
        n     == Len(sents)
        idx   == sumcall.top_sorted
        sel   == {idx[j] : j \in 1..Len(idx)}
        score(i) == SentenceScore(sumcall.text, sents[i])
    IN  /\ Len(idx) = Min(n, sumcall.max_sentences)
        /\ sel \subseteq 1..n
        /\ \A j \in 1..(Len(idx) - 1) : idx[j] < idx[j + 1]
        /\ sumcall.result = JoinSpace([j \in 1..Len(idx) |-> sents[idx[j]]])
        /\ n > sumcall.max_sentences =>
             \A i \in sel : \A j \in (1..n) \ sel :
               score(i) > score(j) \/ (score(i) = score(j) /\ i < j)

\* more sentences than the maximum, with a tie in score across the cut
C8_Witness ==
  /\ sumcall.called
  /\ LET sents == split_sentences(sumcall.text, sumcall.lang)
         sel   == {sumcall.top_sorted[j] : j \in 1..Len(sumcall.top_sorted)}
     IN  /\ Len(sents) > sumcall.max_sentences
         /\ \E i \in sel : \E j \in (1..Len(sents)) \ sel :
              SentenceScore(sumcall.text, sents[i]) = SentenceScore(sumcall.text, sents[j])
         /\ \E i \in sel : \E j \in (1..Len(sents)) \ sel :
              SentenceScore(sumcall.text, sents[i]) > SentenceScore(sumcall.text, sents[j])

====
